---- MODULE Spec2Model ----
(***************************************************************************)
(* Model of ccc_example.py: the port-bounce workflow against a Catalyst     *)
(* Center style controller.  One run of port_bounce (or of a direct call of *)
(* interface_shut_no_shut) is a sequence of HTTP requests; the controller's *)
(* answers are the nondeterministic inputs.                                 *)
(***************************************************************************)
EXTENDS Integers, Sequences, FiniteSets, TLC

\* ------------------------------------------------------------------ bounds
MaxPending == 2     \* most PENDING answers the controller gives in one run
MaxList == 2        \* longest connectedDevice / topology node list

\* ----------------------------------------------------------- Python values
Absent == "<absent>"       \* the key is not in the JSON object
EmptyDict == "{}"          \* the value {} that .get(key, {}) defaults to
Unbound == "<unbound>"     \* a local variable that was never assigned
NoArg == "<omitted>"       \* an optional argument the caller left out

\* `not v` for the values a JSON field can take here
Falsy(v) == v \in {"", EmptyDict}

\* dict.get(key, {})
Get(v) == IF v = Absent THEN EmptyDict ELSE v

\* Response texts are sequences of characters.
EmptyText == << >>
JsonText == << "{", "}" >>
NoChange ==
  << "N","o"," ","c","h","a","n","g","e"," ","i","n"," ",
     "s","e","t","t","i","n","g" >>

\* Python's `needle in text`
Contains(needle, text) ==
  \E i \in 0..(Len(text) - Len(needle)) :
     SubSeq(text, i + 1, i + Len(needle)) = needle

\* raise_for_status(): TRUE when the response is an HTTP error
IsHTTPError(resp) == resp.code # "2xx"

\* ------------------------------------------------------- exception kinds
HTTPError == "requests.exceptions.HTTPError"
EmptyResponse == "Empty Response from the server."
ResolutionFailed == "Unable to get parent device UUID from client details"
InterfaceNotFound == "Unable to locate interface details of either: UUID or status"
TaskFailed == "Interface update task failed"
KeyError == "KeyError"
IndexError == "IndexError"
UnboundLocalError == "UnboundLocalError"
NoExc == "none"

\* ------------------------------------------------- controller's answers
Lists(S) == UNION { [1..k -> S] : k \in 0..MaxList }

ErrorTexts ==
  { EmptyText,
    NoChange,
    << "{" >> \o NoChange \o << "}" >>,
    SubSeq(NoChange, 1, Len(NoChange) - 1),
    << "n" >> \o Tail(NoChange),
    << "5", "0", "0" >> }

ClientResponses ==
  { [code |-> "4xx", text |-> EmptyText, port |-> Absent,
     cdPresent |-> FALSE, cd |-> << >>, nodesPresent |-> FALSE, nodes |-> << >>],
    [code |-> "2xx", text |-> EmptyText, port |-> Absent,
     cdPresent |-> FALSE, cd |-> << >>, nodesPresent |-> FALSE, nodes |-> << >>] }
  \cup
  { [code |-> "2xx", text |-> JsonText, port |-> p,
     cdPresent |-> FALSE, cd |-> << >>, nodesPresent |-> FALSE, nodes |-> << >>] :
       p \in {Absent, "Gi1/0/3"} }
  \cup
  { [code |-> "2xx", text |-> JsonText, port |-> p,
     cdPresent |-> FALSE, cd |-> << >>, nodesPresent |-> TRUE, nodes |-> n] :
       p \in {Absent, "Gi1/0/3"}, n \in Lists({Absent, "", "n"}) }
  \cup
  { [code |-> "2xx", text |-> JsonText, port |-> p,
     cdPresent |-> TRUE, cd |-> c, nodesPresent |-> FALSE, nodes |-> << >>] :
       p \in {Absent, "Gi1/0/3"}, c \in Lists({Absent, "", "d"}) }
  \cup
  { [code |-> "2xx", text |-> JsonText, port |-> p,
     cdPresent |-> TRUE, cd |-> c, nodesPresent |-> TRUE, nodes |-> n] :
       p \in {Absent, "Gi1/0/3"}, c \in Lists({Absent, "", "d"}),
       n \in Lists({Absent, "", "n"}) }

InterfaceResponses ==
  { [code |-> "4xx", text |-> EmptyText, id |-> Absent, adminStatus |-> Absent],
    [code |-> "2xx", text |-> EmptyText, id |-> Absent, adminStatus |-> Absent] }
  \cup
  { [code |-> "2xx", text |-> JsonText, id |-> i, adminStatus |-> a] :
       i \in {Absent, "", "if1"}, a \in {Absent, "", "UP", "DOWN", "TESTING"} }

PutResponses ==
  { [code |-> "4xx", text |-> t, taskId |-> Absent] : t \in ErrorTexts }
  \cup
  { [code |-> "2xx", text |-> EmptyText, taskId |-> Absent] }
  \cup
  { [code |-> "2xx", text |-> JsonText, taskId |-> t] : t \in {Absent, "t1"} }

TaskResponses ==
  { [code |-> "4xx", text |-> t, status |-> Absent] : t \in {EmptyText, NoChange} }
  \cup
  { [code |-> "2xx", text |-> EmptyText, status |-> Absent] }
  \cup
  { [code |-> "2xx", text |-> JsonText, status |-> st] :
       st \in {Absent, "PENDING", "SUCCESS", "FAILURE", ""} }

NoResp == [code |-> "none"]

Modes == {"Deploy", "Preview"}

\* ---------------------------------------------------- get_client_details
\* variant: indexes the last connectedDevice entry instead of the first
primary_lookup_last(resp) ==
  IF ~resp.cdPresent THEN [exc |-> NoExc, value |-> Unbound]
  ELSE IF Len(resp.cd) = 0 THEN [exc |-> IndexError, value |-> Unbound]
  ELSE IF resp.cd[Len(resp.cd)] = Absent THEN [exc |-> NoExc, value |-> Unbound]
  ELSE [exc |-> NoExc, value |-> resp.cd[Len(resp.cd)]]

\* line 83 with its `except KeyError: pass`
primary_lookup(resp) ==
  IF ~resp.cdPresent THEN [exc |-> NoExc, value |-> Unbound]
  ELSE IF Len(resp.cd) = 0 THEN [exc |-> IndexError, value |-> Unbound]
  ELSE IF resp.cd[1] = Absent THEN [exc |-> NoExc, value |-> Unbound]
  ELSE [exc |-> NoExc, value |-> resp.cd[1]]

\* lines 87-93
fallback_lookup(resp) ==
  LET nodes == IF resp.nodesPresent THEN resp.nodes ELSE << >>
  IN IF Len(nodes) <= 1 THEN [exc |-> ResolutionFailed, value |-> Unbound]
     ELSE [exc |-> NoExc, value |-> Get(nodes[2])]

Raise(e) == [exc |-> e, interface_name |-> Unbound, parent_device_uuid |-> Unbound]

get_client_details(resp) ==
  IF IsHTTPError(resp) THEN Raise(HTTPError)
  ELSE IF resp.text = EmptyText THEN Raise(EmptyResponse)
  ELSE IF resp.port = Absent THEN Raise(KeyError)
  ELSE
    LET p == primary_lookup(resp)
    IN IF p.exc # NoExc THEN Raise(p.exc)
       ELSE IF p.value = Unbound THEN Raise(UnboundLocalError)
       ELSE IF Falsy(p.value)
         THEN LET f == fallback_lookup(resp)
              IN IF f.exc # NoExc THEN Raise(f.exc)
                 ELSE [exc |-> NoExc, interface_name |-> resp.port,
                       parent_device_uuid |-> f.value]
         ELSE [exc |-> NoExc, interface_name |-> resp.port,
               parent_device_uuid |-> p.value]

\* ------------------------------------------------- get_interface_details
RaiseIf(e) == [exc |-> e, interface_uuid |-> Unbound, current_interface_status |-> Unbound]

\* variant: `and` in place of `or` in the validity test
get_interface_details_and(resp) ==
  IF IsHTTPError(resp) THEN RaiseIf(HTTPError)
  ELSE IF resp.text = EmptyText THEN RaiseIf(EmptyResponse)
  ELSE
    LET interface_uuid == Get(resp.id)
        current_interface_status == Get(resp.adminStatus)
    IN IF Falsy(interface_uuid) /\ Falsy(current_interface_status)
         THEN RaiseIf(InterfaceNotFound)
         ELSE [exc |-> NoExc, interface_uuid |-> interface_uuid,
               current_interface_status |-> current_interface_status]

get_interface_details(resp) ==
  IF IsHTTPError(resp) THEN RaiseIf(HTTPError)
  ELSE IF resp.text = EmptyText THEN RaiseIf(EmptyResponse)
  ELSE
    LET interface_uuid == Get(resp.id)
        current_interface_status == Get(resp.adminStatus)
    IN IF Falsy(interface_uuid) \/ Falsy(current_interface_status)
         THEN RaiseIf(InterfaceNotFound)
         ELSE [exc |-> NoExc, interface_uuid |-> interface_uuid,
               current_interface_status |-> current_interface_status]

\* ------------------------------------------------------------ lookup_task
lookup_task(resp) ==
  IF IsHTTPError(resp) THEN [exc |-> HTTPError, status |-> Absent]
  ELSE IF resp.text = EmptyText THEN [exc |-> EmptyResponse, status |-> Absent]
  ELSE [exc |-> NoExc, status |-> resp.status]

\* ------------------------------------------------- interface_shut_no_shut
DefaultMode == "Deploy"

\* a `mode: str = "Deploy"` parameter bound from the caller's argument
BindMode(arg) == IF arg = NoArg THEN DefaultMode ELSE arg

\* the mode interface_shut_no_shut receives from port_bounce's call
port_bounce_mode(arg) == DefaultMode

\* variant: the first PUT always shuts the interface
first_request_always_down(status) == "DOWN"

\* the adminStatus of the first PUT of each branch
first_request(status) == IF status = "DOWN" THEN "UP" ELSE "DOWN"

\* variant: the first PUT tolerates the "No change in setting" error too
check_put_tolerant(resp) ==
  IF IsHTTPError(resp)
    THEN IF Contains(NoChange, resp.text) THEN NoExc ELSE HTTPError
  ELSE IF resp.text = EmptyText THEN EmptyResponse
  ELSE NoExc

\* r1.raise_for_status() and the empty-text test
check_put(resp) ==
  IF IsHTTPError(resp) THEN HTTPError
  ELSE IF resp.text = EmptyText THEN EmptyResponse
  ELSE NoExc

\* variant: a PENDING task is taken as finished
poll_step_no_wait(status) ==
  IF status = Absent THEN "KeyError"
  ELSE IF status = "PENDING" THEN "break"
  ELSE IF status = "SUCCESS" THEN "break"
  ELSE "raise"

\* variant: any status other than SUCCESS is polled again
poll_step_retry_failed(status) ==
  IF status = Absent THEN "KeyError"
  ELSE IF status = "SUCCESS" THEN "break"
  ELSE "continue"

\* variant: a failed task ends the loop like a successful one
poll_step_ignore_failure(status) ==
  IF status = Absent THEN "KeyError"
  ELSE IF status = "PENDING" THEN "continue"
  ELSE "break"

\* variant: a blank status is polled again like PENDING
poll_step_retry_blank(status) ==
  IF status = Absent THEN "KeyError"
  ELSE IF status \in {"PENDING", ""} THEN "continue"
  ELSE IF status = "SUCCESS" THEN "break"
  ELSE "raise"

\* one pass of the body of `while True` on a fetched status
poll_step(status) ==
  IF status = Absent THEN "KeyError"
  ELSE IF status = "PENDING" THEN "continue"
  ELSE IF status = "SUCCESS" THEN "break"
  ELSE "raise"

\* variant: every HTTP error on the restoring PUT is swallowed
restore_outcome_swallow_all(resp) ==
  IF IsHTTPError(resp) THEN NoExc
  ELSE IF resp.text = EmptyText THEN EmptyResponse ELSE NoExc

\* variant: `except Exception` also swallows the empty-body exception
restore_outcome_empty_ok(resp) ==
  IF IsHTTPError(resp)
    THEN IF Contains(NoChange, resp.text) THEN NoExc ELSE HTTPError
    ELSE NoExc

\* variant: the restoring PUT reads the task id of its answer as the first does
restore_outcome_needs_task(resp) ==
  IF IsHTTPError(resp)
    THEN IF Contains(NoChange, resp.text) THEN NoExc ELSE HTTPError
    ELSE IF resp.text = EmptyText THEN EmptyResponse
    ELSE IF resp.taskId = Absent THEN KeyError ELSE NoExc

\* the try/except around the restoring PUT: NoExc is a normal return
restore_outcome(resp) ==
  IF IsHTTPError(resp)
    THEN IF Contains(NoChange, resp.text) THEN NoExc ELSE HTTPError
    ELSE IF resp.text = EmptyText THEN EmptyResponse ELSE NoExc

\* -------------------------------------------------------------- requests
Req(op, adminStatus, m) == [op |-> op, adminStatus |-> adminStatus, mode |-> m]
GetClient == Req("GET client-detail", "-", "-")
GetInterface == Req("GET interface-name", "-", "-")
GetTask == Req("GET tasks", "-", "-")
Put(adminStatus, m) == Req("PUT interface", adminStatus, m)

\* ----------------------------------------------------------------- state
VARIABLES
  pc,                        \* the statement the run is at
  entry,                     \* the function the caller invoked
  callerMode,                \* the mode argument the caller gave (or NoArg)
  mode,                      \* interface_shut_no_shut's mode parameter
  interface_name,            \* port_bounce's locals
  parent_device_uuid,
  interface_uuid,
  current_interface_status,
  r,                         \* the response of the latest request
  resp1,                     \* taskId carried by the first PUT's body
  log,                       \* the requests issued so far, in order
  observed,                  \* the statuses the poll loop has read
  sleeps,                    \* calls of sleep(1)
  outcome,                   \* "running", "returned" or the exception raised
  tick                       \* parity of the poll iterations that slept

vars == << pc, entry, callerMode, mode, interface_name, parent_device_uuid,
           interface_uuid, current_interface_status, r, resp1, log, observed,
           sleeps, outcome, tick >>

Init ==
  /\ pc = "idle"
  /\ entry = "none"
  /\ callerMode = NoArg
  /\ mode = Unbound
  /\ interface_name = Unbound
  /\ parent_device_uuid = Unbound
  /\ interface_uuid = Unbound
  /\ current_interface_status = Unbound
  /\ r = NoResp
  /\ resp1 = Unbound
  /\ log = << >>
  /\ observed = << >>
  /\ sleeps = 0
  /\ outcome = "running"
  /\ tick = 0

\* the caller invokes port_bounce(mac_address, mode)
CallPortBounce ==
  /\ pc = "idle"
  /\ UNCHANGED tick
  /\ \E m \in Modes \cup {NoArg} : callerMode' = m
  /\ entry' = "port_bounce"
  /\ pc' = "get_client_details"
  /\ UNCHANGED << mode, interface_name, parent_device_uuid, interface_uuid,
                  current_interface_status, r, resp1, log, observed, sleeps,
                  outcome >>

\* the caller invokes interface_shut_no_shut(uuid, status, mode) directly
CallInterfaceShutNoShut ==
  /\ pc = "idle"
  /\ UNCHANGED tick
  /\ \E m \in Modes \cup {NoArg}, st \in {"UP", "DOWN", "TESTING"} :
        /\ callerMode' = m
        /\ mode' = BindMode(m)
        /\ current_interface_status' = st
  /\ interface_uuid' = "if1"
  /\ entry' = "interface_shut_no_shut"
  /\ pc' = "interface_shut_no_shut"
  /\ UNCHANGED << interface_name, parent_device_uuid, r, resp1, log, observed,
                  sleeps, outcome >>

\* variant: a failed client lookup is swallowed and the workflow goes on
GetClientDetails_swallow ==
  /\ pc = "get_client_details"
  /\ UNCHANGED tick
  /\ \E resp \in ClientResponses :
        LET res == get_client_details(resp)
        IN /\ r' = resp
           /\ log' = Append(log, GetClient)
           /\ interface_name' = res.interface_name
           /\ parent_device_uuid' = res.parent_device_uuid
           /\ pc' = "get_interface_details"
           /\ UNCHANGED outcome
  /\ UNCHANGED << entry, callerMode, mode, interface_uuid,
                  current_interface_status, resp1, observed, sleeps >>

\* port_bounce's call of get_client_details
GetClientDetails ==
  /\ pc = "get_client_details"
  /\ UNCHANGED tick
  /\ \E resp \in ClientResponses :
        LET res == get_client_details(resp)
        IN /\ r' = resp
           /\ log' = Append(log, GetClient)
           /\ IF res.exc # NoExc
                THEN /\ outcome' = res.exc
                     /\ pc' = "done"
                     /\ UNCHANGED << interface_name, parent_device_uuid >>
                ELSE /\ interface_name' = res.interface_name
                     /\ parent_device_uuid' = res.parent_device_uuid
                     /\ pc' = "get_interface_details"
                     /\ UNCHANGED outcome
  /\ UNCHANGED << entry, callerMode, mode, interface_uuid,
                  current_interface_status, resp1, observed, sleeps >>

\* port_bounce's call of get_interface_details, then of interface_shut_no_shut
GetInterfaceDetails ==
  /\ pc = "get_interface_details"
  /\ UNCHANGED tick
  /\ \E resp \in InterfaceResponses :
        LET res == get_interface_details(resp)
        IN /\ r' = resp
           /\ log' = Append(log, GetInterface)
           /\ IF res.exc # NoExc
                THEN /\ outcome' = res.exc
                     /\ pc' = "done"
                     /\ UNCHANGED << interface_uuid, current_interface_status, mode >>
                ELSE /\ interface_uuid' = res.interface_uuid
                     /\ current_interface_status' = res.current_interface_status
                     /\ mode' = port_bounce_mode(callerMode)
                     /\ pc' = "interface_shut_no_shut"
                     /\ UNCHANGED outcome
  /\ UNCHANGED << entry, callerMode, interface_name, parent_device_uuid, resp1,
                  observed, sleeps >>

\* the first PUT of the DOWN branch or of the UP branch
FirstPut ==
  /\ pc = "interface_shut_no_shut"
  /\ UNCHANGED tick
  /\ current_interface_status \in {"DOWN", "UP"}
  /\ \E resp \in PutResponses :
        /\ r' = resp
        /\ log' = Append(log, Put(first_request(current_interface_status), mode))
        /\ IF check_put(resp) # NoExc
             THEN /\ outcome' = check_put(resp)
                  /\ pc' = "done"
                  /\ UNCHANGED resp1
             ELSE /\ resp1' = resp.taskId
                  /\ pc' = "poll"
                  /\ UNCHANGED outcome
  /\ UNCHANGED << entry, callerMode, mode, interface_name, parent_device_uuid,
                  interface_uuid, current_interface_status, observed, sleeps >>

\* variant: a status that is neither DOWN nor UP is rejected
NoBranch_raises ==
  /\ pc = "interface_shut_no_shut"
  /\ UNCHANGED tick
  /\ current_interface_status \notin {"DOWN", "UP"}
  /\ outcome' = "ValueError"
  /\ pc' = "done"
  /\ UNCHANGED << entry, callerMode, mode, interface_name, parent_device_uuid,
                  interface_uuid, current_interface_status, r, resp1, log,
                  observed, sleeps >>

\* neither branch applies: the function falls through to its final return
NoBranch ==
  /\ pc = "interface_shut_no_shut"
  /\ UNCHANGED tick
  /\ current_interface_status \notin {"DOWN", "UP"}
  /\ outcome' = "returned"
  /\ pc' = "done"
  /\ UNCHANGED << entry, callerMode, mode, interface_name, parent_device_uuid,
                  interface_uuid, current_interface_status, r, resp1, log,
                  observed, sleeps >>

\* the poll loop cannot read the task id: no request is made
PollNoTaskId ==
  /\ pc = "poll"
  /\ UNCHANGED tick
  /\ resp1 = Absent
  /\ outcome' = KeyError
  /\ pc' = "done"
  /\ UNCHANGED << entry, callerMode, mode, interface_name, parent_device_uuid,
                  interface_uuid, current_interface_status, r, resp1, log,
                  observed, sleeps >>

\* one iteration of `while True`: lookup_task, then the status tests
PollTask ==
  /\ pc = "poll"
  /\ UNCHANGED tick
  /\ resp1 # Absent
  /\ \E resp \in TaskResponses :
        LET res == lookup_task(resp)
            step == poll_step(res.status)
        IN /\ (resp.status = "PENDING") => (sleeps < MaxPending)
           /\ r' = resp
           /\ log' = Append(log, GetTask)
           /\ IF res.exc # NoExc
                THEN /\ outcome' = res.exc
                     /\ pc' = "done"
                     /\ UNCHANGED << observed, sleeps >>
                ELSE IF step = "KeyError"
                THEN /\ outcome' = KeyError
                     /\ pc' = "done"
                     /\ UNCHANGED << observed, sleeps >>
                ELSE /\ observed' = Append(observed, res.status)
                     /\ IF step = "continue"
                          THEN /\ sleeps' = sleeps + 1
                               /\ pc' = "poll"
                               /\ UNCHANGED outcome
                          ELSE IF step = "break"
                          THEN /\ UNCHANGED sleeps
                               /\ IF current_interface_status = "DOWN"
                                    THEN outcome' = "returned" /\ pc' = "done"
                                    ELSE outcome' = outcome /\ pc' = "restore"
                          ELSE /\ UNCHANGED sleeps
                               /\ outcome' = TaskFailed
                               /\ pc' = "done"
  /\ UNCHANGED << entry, callerMode, mode, interface_name, parent_device_uuid,
                  interface_uuid, current_interface_status, resp1 >>

\* the restoring PUT of the UP branch, inside try/except HTTPError
RestorePut ==
  /\ pc = "restore"
  /\ UNCHANGED tick
  /\ \E resp \in PutResponses :
        /\ r' = resp
        /\ log' = Append(log, Put("UP", mode))
        /\ outcome' = IF restore_outcome(resp) = NoExc THEN "returned"
                       ELSE restore_outcome(resp)
  /\ pc' = "done"
  /\ UNCHANGED << entry, callerMode, mode, interface_name, parent_device_uuid,
                  interface_uuid, current_interface_status, resp1, observed,
                  sleeps >>

\* `while True` without a bound on the PENDING answers: the history kept in
\* log, observed and sleeps stops growing after MaxPending sleeps, tick
\* still changes with every sleep.
PollTaskLive ==
  /\ pc = "poll"
  /\ resp1 # Absent
  /\ \E resp \in TaskResponses :
        LET res == lookup_task(resp)
            step == poll_step(res.status)
            full == sleeps >= MaxPending
        IN /\ r' = resp
           /\ IF res.exc # NoExc
                THEN /\ outcome' = res.exc
                     /\ pc' = "done"
                     /\ log' = Append(log, GetTask)
                     /\ UNCHANGED << observed, sleeps, tick >>
                ELSE IF step = "KeyError"
                THEN /\ outcome' = KeyError
                     /\ pc' = "done"
                     /\ log' = Append(log, GetTask)
                     /\ UNCHANGED << observed, sleeps, tick >>
                ELSE IF step = "continue"
                THEN /\ tick' = 1 - tick
                     /\ pc' = "poll"
                     /\ UNCHANGED outcome
                     /\ IF full
                          THEN UNCHANGED << log, observed, sleeps >>
                          ELSE /\ log' = Append(log, GetTask)
                               /\ observed' = Append(observed, res.status)
                               /\ sleeps' = sleeps + 1
                ELSE /\ log' = Append(log, GetTask)
                     /\ observed' = Append(observed, res.status)
                     /\ UNCHANGED << sleeps, tick >>
                     /\ IF step = "break"
                          THEN IF current_interface_status = "DOWN"
                                 THEN outcome' = "returned" /\ pc' = "done"
                                 ELSE outcome' = outcome /\ pc' = "restore"
                          ELSE outcome' = TaskFailed /\ pc' = "done"
  /\ UNCHANGED << entry, callerMode, mode, interface_name, parent_device_uuid,
                  interface_uuid, current_interface_status, resp1 >>

Next ==
  \/ CallPortBounce
  \/ CallInterfaceShutNoShut
  \/ GetClientDetails
  \/ GetInterfaceDetails
  \/ FirstPut
  \/ NoBranch
  \/ PollNoTaskId
  \/ PollTask
  \/ RestorePut

Spec == Init /\ [][Next]_vars

NextLive ==
  \/ CallPortBounce
  \/ CallInterfaceShutNoShut
  \/ GetClientDetails
  \/ GetInterfaceDetails
  \/ FirstPut
  \/ NoBranch
  \/ PollNoTaskId
  \/ PollTaskLive
  \/ RestorePut

\* the interpreter always executes the next statement of a run: weak fairness
\* of the program's step; the controller's answers are under no fairness.
SpecLive == Init /\ [][NextLive]_vars /\ WF_vars(NextLive)

\* ------------------------------------------------------- derived history
IsPut(e) == e.op = "PUT interface"
IsGetTask(e) == e.op = "GET tasks"
Puts == SelectSeq(log, IsPut)
Fetches == Len(SelectSeq(log, IsGetTask))
PutStatuses == [i \in 1..Len(Puts) |-> Puts[i].adminStatus]
Last(s) == s[Len(s)]
AllPending(s, n) == \A i \in 1..n : s[i] = "PENDING"

\* text = prefix . NoChange . suffix
HasNoChange(text) ==
  \E i \in 0..Len(text) :
     /\ i + Len(NoChange) <= Len(text)
     /\ SubSeq(text, 1, i) \o NoChange
          \o SubSeq(text, i + Len(NoChange) + 1, Len(text)) = text

\* r is the answer to the client-detail GET, just processed
AfterClientLookup == Len(log) = 1 /\ log[1] = GetClient
\* r is the answer to the interface GET, just processed
AfterInterfaceLookup == Len(log) = 2 /\ log[2] = GetInterface
\* a 2xx answer with a body
WellFormed(resp) == resp.code = "2xx" /\ resp.text # EmptyText

\* ---------------------------------------------------------------- claims

\* C1: in a run started with current status UP the state-change requests are
\* DOWN then UP, in that order and at most once each; a run that returns has
\* issued both; the UP request directly follows a task fetch that read
\* SUCCESS; and nothing (no task fetch) is requested after the UP request.
C1_UpBranchOrder ==
  current_interface_status = "UP" =>
    /\ PutStatuses \in { << >>, << "DOWN" >>, << "DOWN", "UP" >> }
    /\ (pc # "interface_shut_no_shut") => (Len(Puts) >= 1)
    /\ (outcome = "returned") => (PutStatuses = << "DOWN", "UP" >>)
    /\ (Len(Puts) = 2) =>
          /\ pc = "done"
          /\ IsPut(Last(log))
          /\ log[Len(log) - 1] = GetTask
          /\ observed # << >> /\ Last(observed) = "SUCCESS"
          /\ Fetches = Len(observed)

C1_Witness ==
  /\ current_interface_status = "UP"
  /\ outcome = "returned"
  /\ PutStatuses = << "DOWN", "UP" >>
  /\ r.code = "2xx"
  /\ sleeps >= 1

\* C2: in a run whose interface status is DOWN, exactly one state-change
\* request is issued, it sets UP, none sets DOWN, and the run returns only
\* right after a task fetch that read SUCCESS.
C2_DownBranchSinglePut ==
  current_interface_status = "DOWN" =>
    /\ PutStatuses \in { << >>, << "UP" >> }
    /\ (pc # "interface_shut_no_shut") => (PutStatuses = << "UP" >>)
    /\ (outcome = "returned") =>
          /\ Last(log) = GetTask
          /\ r.code = "2xx" /\ r.status = "SUCCESS"
          /\ Last(observed) = "SUCCESS"

C2_Witness ==
  /\ entry = "port_bounce"
  /\ current_interface_status = "DOWN"
  /\ outcome = "returned"
  /\ PutStatuses = << "UP" >>
  /\ sleeps >= 1

\* C3: when the restoring PUT of the UP branch is answered with an HTTP
\* error, the function returns normally exactly when the error body contains
\* "No change in setting"; otherwise the HTTP error reaches the caller.
C3_IdempotencyTolerance ==
  (current_interface_status = "UP" /\ Len(Puts) = 2 /\ r.code # "2xx") =>
    /\ (outcome = "returned") <=> HasNoChange(r.text)
    /\ (~HasNoChange(r.text)) => (outcome = HTTPError)

C3_Witness ==
  /\ current_interface_status = "UP"
  /\ Len(Puts) = 2
  /\ r.code # "2xx"
  /\ r.text = << "{" >> \o NoChange \o << "}" >>
  /\ outcome = "returned"

C3_WitnessPropagated ==
  /\ current_interface_status = "UP"
  /\ Len(Puts) = 2
  /\ r.code # "2xx"
  /\ r.text = SubSeq(NoChange, 1, Len(NoChange) - 1)
  /\ outcome = HTTPError

\* C4 (as claimed): a well-formed client-detail answer with an empty or
\* absent connectedDevice list and at least two topology nodes makes
\* get_client_details return the second node's identifier.
C4_FallbackReturnsSecondNode ==
  ( /\ AfterClientLookup
    /\ WellFormed(r) /\ r.port # Absent
    /\ (~r.cdPresent \/ r.cd = << >>)
    /\ r.nodesPresent /\ Len(r.nodes) >= 2 /\ r.nodes[2] = "n" ) =>
      /\ outcome = "running"
      /\ pc = "get_interface_details"
      /\ parent_device_uuid = r.nodes[2]

\* C5 (as claimed): every well-formed answer with a non-empty connectedDevice
\* list yields the first entry's identifier, whatever the topology is.
C5_PrimaryForEveryNonEmptyList ==
  ( /\ AfterClientLookup
    /\ WellFormed(r) /\ r.port # Absent
    /\ r.cdPresent /\ Len(r.cd) >= 1 ) =>
      /\ outcome = "running"
      /\ parent_device_uuid = r.cd[1]

\* C5 (amended): a well-formed answer whose connectedDevice list is non-empty
\* and whose first entry carries a non-empty identifier yields that
\* identifier, and every answer differing only in topology yields the same.
C5_PrimaryIgnoresTopology ==
  ( /\ AfterClientLookup
    /\ WellFormed(r) /\ r.port # Absent
    /\ r.cdPresent /\ Len(r.cd) >= 1 /\ r.cd[1] \notin {Absent, ""} ) =>
      /\ outcome = "running"
      /\ pc = "get_interface_details"
      /\ parent_device_uuid = r.cd[1]
      /\ interface_name = r.port
      /\ \A r2 \in ClientResponses :
            ( /\ WellFormed(r2) /\ r2.port = r.port
              /\ r2.cdPresent = r.cdPresent /\ r2.cd = r.cd ) =>
              /\ get_client_details(r2).exc = NoExc
              /\ get_client_details(r2).parent_device_uuid = parent_device_uuid
              /\ get_client_details(r2).interface_name = interface_name

C5_Witness ==
  /\ AfterClientLookup
  /\ r.cdPresent /\ Len(r.cd) = 2 /\ r.cd[1] = "d"
  /\ r.nodesPresent /\ Len(r.nodes) >= 2 /\ r.nodes[2] = "n"
  /\ parent_device_uuid = "d"

\* C6 (as claimed): every state-change PUT of a run carries the mode the
\* caller gave to the entry point, Deploy when the caller gave none.
C6_ModePassedThrough ==
  \A i \in 1..Len(log) : IsPut(log[i]) => (log[i].mode = BindMode(callerMode))

\* C7: when the statuses read are k times PENDING and then SUCCESS, the loop
\* has slept k times and fetched k+1 times and is left normally; when they
\* are k times PENDING and then neither PENDING nor SUCCESS, the run ends
\* there with the task failure, after k sleeps and k+1 fetches.
C7_PollLoop ==
  (observed # << >>) =>
    /\ AllPending(observed, Len(observed) - 1)
    /\ (Last(observed) = "PENDING") =>
          /\ sleeps = Len(observed)
          /\ (outcome = "running") => (pc = "poll" /\ Fetches = Len(observed))
    /\ (Last(observed) = "SUCCESS") =>
          /\ sleeps = Len(observed) - 1
          /\ Fetches = Len(observed)
          /\ outcome # TaskFailed
          /\ IF current_interface_status = "DOWN"
               THEN outcome = "returned" /\ pc = "done"
               ELSE pc = "restore" \/ Len(Puts) = 2
    /\ (Last(observed) \notin {"PENDING", "SUCCESS"}) =>
          /\ sleeps = Len(observed) - 1
          /\ Fetches = Len(observed)
          /\ Last(log) = GetTask
          /\ outcome = TaskFailed
          /\ pc = "done"

C7_Witness ==
  /\ observed = << "PENDING", "PENDING", "SUCCESS" >>
  /\ sleeps = 2
  /\ Fetches = 3
  /\ current_interface_status = "DOWN"
  /\ outcome = "returned"

C7_WitnessFailed ==
  /\ observed = << "PENDING", "FAILURE" >>
  /\ outcome = TaskFailed

\* C8 (as claimed): a well-formed answer with no connectedDevice entry and
\* at most one topology node fails with the resolution-failed error.
C8_NoParentRaisesResolutionFailed ==
  ( /\ AfterClientLookup
    /\ WellFormed(r) /\ r.port # Absent
    /\ (~r.cdPresent \/ r.cd = << >>)
    /\ (~r.nodesPresent \/ Len(r.nodes) <= 1) ) =>
      /\ outcome = ResolutionFailed
      /\ pc = "done"

\* C9 (as claimed): get_client_details never returns normally with an empty
\* or missing parent device identifier.
C9_ParentNeverEmpty ==
  (AfterClientLookup /\ outcome = "running") =>
    parent_device_uuid \notin {"", EmptyDict, Absent, Unbound}

\* C10: an interface answer whose id or adminStatus is missing or empty makes
\* get_interface_details fail; it returns only when both are non-empty, and
\* then returns exactly those two values.
C10_InterfaceFieldsRequired ==
  AfterInterfaceLookup =>
    /\ ( /\ WellFormed(r)
         /\ (r.id \in {Absent, ""} \/ r.adminStatus \in {Absent, ""}) ) =>
           (outcome = InterfaceNotFound /\ pc = "done")
    /\ (outcome = "running") =>
           /\ r.id \notin {Absent, ""}
           /\ r.adminStatus \notin {Absent, ""}
           /\ interface_uuid = r.id
           /\ current_interface_status = r.adminStatus

C10_Witness ==
  /\ AfterInterfaceLookup
  /\ WellFormed(r)
  /\ r.id = "if1" /\ r.adminStatus = Absent
  /\ outcome = InterfaceNotFound

\* the run is over: it is at its end and no statement is left to execute
Ended == pc = "done" /\ ~ENABLED Next
\* the run ended by raising
Failed == outcome \notin {"running", "returned"}
\* r answers the restoring PUT of the UP branch
AfterRestorePut == current_interface_status = "UP" /\ Len(Puts) = 2

\* C11 (as claimed): in the UP branch, once DOWN has been requested, a run
\* that fails has DOWN as its last requested admin state.
C11_LastRequestedIsDown ==
  (current_interface_status = "UP" /\ Len(Puts) >= 1 /\ Failed) =>
    (Ended /\ Last(PutStatuses) = "DOWN")

\* C11 (amended): in the UP branch, once DOWN has been requested, every
\* failure ends the run at the failing step with no compensating request; a
\* failed first task ends it with DOWN as the only request; the last
\* requested state is DOWN unless the failure is that of the restoring PUT
\* itself (empty body or non-tolerated HTTP error), which was then sent last.
C11_NoCompensation ==
  (current_interface_status = "UP" /\ Len(Puts) >= 1) =>
    /\ Failed =>
          /\ Ended
          /\ PutStatuses \in { << "DOWN" >>, << "DOWN", "UP" >> }
          /\ (Len(Puts) = 2) =>
                /\ IsPut(Last(log))
                /\ \/ outcome = EmptyResponse /\ r.code = "2xx" /\ r.text = EmptyText
                   \/ outcome = HTTPError /\ r.code # "2xx" /\ ~HasNoChange(r.text)
    /\ (observed # << >> /\ Last(observed) \notin {"PENDING", "SUCCESS"}) =>
          (Failed /\ PutStatuses = << "DOWN" >>)
    /\ (Len(Puts) = 1 /\ pc \notin {"poll", "restore"}) => Failed

C11_Witness ==
  /\ current_interface_status = "UP"
  /\ PutStatuses = << "DOWN" >>
  /\ observed = << "PENDING", "FAILURE" >>
  /\ outcome = TaskFailed
  /\ pc = "done"

C11_WitnessRestoreFailed ==
  /\ current_interface_status = "UP"
  /\ PutStatuses = << "DOWN", "UP" >>
  /\ outcome = EmptyResponse

\* C12: in a run of port_bounce the client-detail GET is the first request,
\* the interface GET the second, every PUT and task fetch comes later and
\* only after both lookups returned values; a failed lookup ends the run with
\* that lookup's exception, no PUT and no task fetch.
C12_OrderedComposition ==
  (entry = "port_bounce") =>
    /\ \A i \in 1..Len(log) :
          /\ (log[i] = GetClient) <=> (i = 1)
          /\ (log[i] = GetInterface) <=> (i = 2)
    /\ (Len(log) >= 2) => (interface_name # Unbound /\ parent_device_uuid # Unbound)
    /\ (Len(log) >= 3) =>
          (interface_uuid # Unbound /\ current_interface_status # Unbound)
    /\ (AfterClientLookup /\ get_client_details(r).exc # NoExc) =>
          (outcome = get_client_details(r).exc /\ Ended)
    /\ (AfterInterfaceLookup /\ get_interface_details(r).exc # NoExc) =>
          (outcome = get_interface_details(r).exc /\ Ended)
    /\ (pc = "done" /\ Len(log) <= 2 /\ outcome # "returned") =>
          (Failed /\ Ended /\ Puts = << >> /\ Fetches = 0)

C12_Witness ==
  /\ entry = "port_bounce"
  /\ AfterInterfaceLookup
  /\ outcome = InterfaceNotFound
  /\ pc = "done"

C12_WitnessClientFailed ==
  /\ entry = "port_bounce"
  /\ AfterClientLookup
  /\ outcome = EmptyResponse
  /\ pc = "done"

\* a poll iteration that read PENDING and slept
PendingAnswer == pc = "poll" /\ tick' # tick /\ r'.status = "PENDING"
\* a poll iteration after which the loop goes round again
PollAgain == PollTaskLive /\ pc' = "poll"
\* only task fetches are repeated, and each repeat follows a sleep
NoRetryOutsidePoll ==
  /\ \A i, j \in 1..Len(log) : (i < j /\ log[i] = log[j]) => (log[i] = GetTask)
  /\ Fetches <= sleeps + 1

\* C13: no request but the task fetch is ever repeated; at every point of
\* the poll loop one more PENDING answer is taken and leads to one more
\* iteration (no retry bound); and every run in which the PENDING answers
\* stop at some point reaches its end.
C13_Termination ==
  /\ []NoRetryOutsidePoll
  /\ []((pc = "poll" /\ resp1 # Absent) => ENABLED PollAgain)
  /\ ([]<><<PendingAnswer>>_vars) \/ <>(pc = "done")

\* the loop has gone round more often than the history records
C13_Witness ==
  /\ pc = "poll"
  /\ sleeps = MaxPending
  /\ tick # MaxPending % 2
  /\ outcome = "running"

\* Termination without the proviso: the run in which the task stays PENDING
\* for ever never reaches its end.
C13_AlwaysTerminates == <>(pc = "done")

\* a 2xx answer whose text is ""
EmptyBody(resp) == resp.code = "2xx" /\ resp.text = EmptyText

\* C14: an empty body in answer to any request (client-detail GET, interface
\* GET, either PUT, any task fetch) ends the run at that request with the
\* empty-response exception; on the restoring PUT it is not swallowed.
C14_EmptyBodyFatal ==
  EmptyBody(r) =>
    /\ Len(log) >= 1
    /\ outcome = EmptyResponse
    /\ Ended

C14_Witness ==
  /\ AfterRestorePut
  /\ IsPut(Last(log))
  /\ EmptyBody(r)
  /\ outcome = EmptyResponse

C14_WitnessTaskFetch ==
  /\ sleeps >= 1
  /\ Last(log) = GetTask
  /\ EmptyBody(r)
  /\ outcome = EmptyResponse

\* C15: when the answer to the polled PUT carries no task id the run fails
\* before any task fetch and before the restoring PUT; the restoring PUT
\* returns normally on every 2xx answer with a body, task id or not.
C15_TaskHandleAsymmetry ==
  /\ (resp1 = Absent) =>
        /\ Fetches = 0
        /\ Len(Puts) = 1
        /\ pc = "poll" \/ (outcome = KeyError /\ Ended)
  /\ (AfterRestorePut /\ WellFormed(r)) => (outcome = "returned" /\ Ended)

C15_Witness ==
  /\ AfterRestorePut
  /\ WellFormed(r)
  /\ r.taskId = Absent
  /\ outcome = "returned"

C15_WitnessNoTaskId ==
  /\ current_interface_status = "UP"
  /\ resp1 = Absent
  /\ outcome = KeyError
  /\ PutStatuses = << "DOWN" >>

\* C16: an HTTP error in answer to the first PUT of a run or to a task fetch
\* reaches the caller and ends the run there, also when its body contains
\* "No change in setting".
C16_ToleranceOnlyOnRestore ==
  ( /\ Len(log) >= 1
    /\ IsPut(Last(log)) \/ Last(log) = GetTask
    /\ ~AfterRestorePut
    /\ r.code = "4xx" ) =>
      (outcome = HTTPError /\ Ended)

C16_Witness ==
  /\ Len(Puts) = 1
  /\ IsPut(Last(log))
  /\ r.code = "4xx"
  /\ HasNoChange(r.text)
  /\ outcome = HTTPError

C16_WitnessTaskFetch ==
  /\ Len(log) >= 1
  /\ Last(log) = GetTask
  /\ r.code = "4xx"
  /\ r.text = NoChange
  /\ outcome = HTTPError

\* C17: with an adminStatus that is neither "UP" nor "DOWN" the run returns
\* normally without any PUT and without any task fetch.
C17_OtherStatusNoOp ==
  (current_interface_status \notin {Unbound, "UP", "DOWN"}) =>
    /\ ~Falsy(current_interface_status)
    /\ Puts = << >>
    /\ Fetches = 0
    /\ ~Failed
    /\ pc \in {"interface_shut_no_shut", "done"}
    /\ (pc = "done") => (outcome = "returned" /\ Ended)

C17_Witness ==
  /\ entry = "port_bounce"
  /\ current_interface_status = "TESTING"
  /\ log = << GetClient, GetInterface >>
  /\ outcome = "returned"

====
